---- MODULE Spec2Model ----
(***************************************************************************)
(* Model of the AI-Interviewer session state machines.                     *)
(*                                                                         *)
(*  - src/app.py: the pool-based interview graph (LangGraph StateGraph     *)
(*    with nodes prepare_question, human_feedback,                         *)
(*    evaluate_and_generate_filler, adjust_difficulty, process), driven    *)
(*    by the endpoints start_interview and submit_answer.                  *)
(*  - src/backend/main.py and src/backend/api/index.py: the time-budget    *)
(*    variant (InterviewSession.get_response, process_text, SessionStore). *)
(*                                                                         *)
(* Graph semantics used throughout: a node receives a private dict built   *)
(* from the channel values and the graph merges only the keys of the dict  *)
(* the node RETURNS.  A node that returns its (mutated) input writes every *)
(* key; a node that returns a fresh dict writes only that dict's keys.     *)
(* The graph is compiled with interrupt_before=["human_feedback"], so a    *)
(* run stops each time control is about to enter human_feedback.           *)
(***************************************************************************)
EXTENDS Integers, Sequences, FiniteSets, TLC

VARIABLES
    state,             \* app.py: the checkpointed State of the one thread
    next,              \* app.py: snapshot.next of the thread
    resp,              \* app.py: the last HTTP response of start/submit
    now,               \* wall clock, in seconds
    submits,           \* app.py: number of submit_answer requests served
    last,              \* app.py: what the last request found and did
    env,               \* the inputs the environment of this run draws from
    strays,            \* app.py: threads created under ids never started
    peer,              \* app.py: a second thread of the same checkpointer
    backend,           \* backend: which session storage is in use
    store,             \* backend: the session kept under the session id
    reqs,              \* backend: the requests in flight, per request slot
    served             \* backend: number of requests accepted so far

appvars == <<state, next, resp, submits, last, env, strays, peer>>
backvars == <<backend, store, reqs, served>>
vars == <<state, next, resp, now, submits, last, env, strays, peer,
          backend, store, reqs, served>>

-----------------------------------------------------------------------------
(* Bounds *)

MaxPool == 1          \* questions the generator returns per difficulty tier
MaxLimit == 2         \* largest `limit` a session is started with
MaxSubmits == 4       \* submit_answer requests modelled per session
MaxClock == 180       \* last clock value modelled, seconds
MaxRequests == 3      \* backend requests modelled per session
TickSeconds == 60     \* clock granularity, seconds
MaxStrays == 1        \* app.py: submissions under unknown ids modelled

-----------------------------------------------------------------------------
(* Python values *)

None == -1                       \* None in an Optional[int] field
NoneStr == "None"                \* None in an Optional[str] field
NoneAnswer == <<"<None>">>       \* None in user_answer / previous_answer

Levels == {"easy", "medium", "hard"}
Modes == {"time", "count"}

(* Answers are strings, modelled as sequences of one-character strings. *)
Whitespace == {" ", "\t"}

LowerChar(c) ==
    CASE c = "S" -> "s" [] c = "K" -> "k" [] c = "I" -> "i" [] c = "P" -> "p"
      [] c = "A" -> "a" [] c = "O" -> "o" [] OTHER -> c

Lower(str) == [i \in 1..Len(str) |-> LowerChar(str[i])]

RECURSIVE LStrip(_)
LStrip(str) ==
    IF str = <<>> THEN <<>>
    ELSE IF Head(str) \in Whitespace THEN LStrip(Tail(str)) ELSE str

RECURSIVE RStrip(_)
RStrip(str) ==
    IF str = <<>> THEN <<>>
    ELSE IF str[Len(str)] \in Whitespace
         THEN RStrip(SubSeq(str, 1, Len(str) - 1)) ELSE str

Strip(str) == RStrip(LStrip(str))

SkipWord == <<"s", "k", "i", "p">>
PassWord == <<"p", "a", "s", "s">>

-----------------------------------------------------------------------------
(* src/app.py: the interview graph *)

IntroQuestion == "Tell me about yourself."
ConfirmationQuestion ==
    "Thank you for that clarification. Should we move to the next question?"
FollowUpQuestion == "llm-follow-up-question"
FallbackQuestion ==
    [text |-> "What are your strengths?", area |-> "Behavioral",
     difficulty |-> "easy"]

RemoveAt(seq, i) == SubSeq(seq, 1, i - 1) \o SubSeq(seq, i + 1, Len(seq))

(* Python truthiness of an Optional[str] answer: neither None nor "". *)
Truthy(ans) == ans # NoneAnswer /\ ans # <<>>

(* A JSON value in "score" that is not a number (a string such as "80"):
   json.loads accepts it and data.get("score", 0) passes it on (line 195). *)
NotANumber == -2

(* The budget test with a strict comparison in count mode. *)
BudgetExhausted_CountStrict(s, t) ==
    IF s.mode = "time"
    THEN (t - s.start_time) > s.limit * 60
    ELSE s.questions_asked > s.limit

(* Lines 94-102: the budget test that precedes every MAIN selection. *)
BudgetExhausted(s, t) ==
    IF s.mode = "time"
    THEN (t - s.start_time) > s.limit * 60
    ELSE s.questions_asked >= s.limit

(* SelectLevel with the fallback order hard, medium, easy. *)
SelectLevel_HardFirst(s) ==
    LET pools == s.difficulty_pools IN
    IF pools[s.current_difficulty] # <<>> THEN s.current_difficulty
    ELSE IF pools["hard"] # <<>> THEN "hard"
    ELSE IF pools["medium"] # <<>> THEN "medium"
    ELSE IF pools["easy"] # <<>> THEN "easy"
    ELSE "none"

(* Lines 119-129: the tier MAIN pops from; "none" when every pool is empty. *)
SelectLevel(s) ==
    LET pools == s.difficulty_pools IN
    IF pools[s.current_difficulty] # <<>> THEN s.current_difficulty
    ELSE IF pools["medium"] # <<>> THEN "medium"
    ELSE IF pools["hard"] # <<>> THEN "hard"
    ELSE IF pools["easy"] # <<>> THEN "easy"
    ELSE "none"

(* True when prepare_question reaches the pop of lines 131-133. *)
ReachesPop(s, t) ==
    /\ ~s.is_end
    /\ s.intro_done
    /\ s.current_area # "Follow-up"
    /\ ~BudgetExhausted(s, t)
    /\ ~(s.needs_followup /\ Truthy(s.previous_answer)
            /\ s.current_area # "Confirmation")
    /\ SelectLevel(s) # "none"

(* True when prepare_question reaches the llm.invoke of line 113, which is
   not inside a try block.                                                 *)
GeneratesFollowUp(s, t) ==
    /\ ~s.is_end
    /\ s.intro_done
    /\ s.current_area # "Follow-up"
    /\ ~BudgetExhausted(s, t)
    /\ s.needs_followup
    /\ Truthy(s.previous_answer)
    /\ s.current_area # "Confirmation"

(* random.shuffle followed by pop(): any element of the pool may come out. *)
PickChoices(s, t) ==
    IF ReachesPop(s, t)
    THEN 1..Len(s.difficulty_pools[SelectLevel(s)])
    ELSE {1}

(* prepare_question that counts the introduction as a question asked. *)
prepare_question_CountsIntro(s, i, t) ==
    IF s.is_end THEN s
    ELSE IF ~s.intro_done THEN
        [s EXCEPT !.current_question = IntroQuestion,
                  !.current_area = "Introduction",
                  !.current_diff = "easy",
                  !.intro_done = TRUE,
                  !.questions_asked = @ + 1]
    ELSE IF s.current_area = "Follow-up" THEN
        [s EXCEPT !.current_question = ConfirmationQuestion,
                  !.current_area = "Confirmation"]
    ELSE IF BudgetExhausted(s, t) THEN
        [s EXCEPT !.is_end = TRUE]
    ELSE IF s.needs_followup /\ Truthy(s.previous_answer)
                /\ s.current_area # "Confirmation" THEN
        [s EXCEPT !.current_question = FollowUpQuestion,
                  !.current_area = "Follow-up",
                  !.needs_followup = FALSE]
    ELSE IF SelectLevel(s) = "none" THEN
        [s EXCEPT !.is_end = TRUE]
    ELSE
        LET level == SelectLevel(s)
            q_dict == s.difficulty_pools[level][i]
        IN [s EXCEPT !.current_difficulty = level,
                     !.difficulty_pools[level] = RemoveAt(@, i),
                     !.current_question = q_dict.text,
                     !.current_area = q_dict.area,
                     !.current_diff = level,
                     !.questions_asked = @ + 1]

(* prepare_question that leaves the session running when every pool is
   empty.                                                                  *)
prepare_question_NoDepletionEnd(s, i, t) ==
    IF s.is_end THEN s
    ELSE IF ~s.intro_done THEN
        [s EXCEPT !.current_question = IntroQuestion,
                  !.current_area = "Introduction",
                  !.current_diff = "easy",
                  !.intro_done = TRUE]
    ELSE IF s.current_area = "Follow-up" THEN
        [s EXCEPT !.current_question = ConfirmationQuestion,
                  !.current_area = "Confirmation"]
    ELSE IF BudgetExhausted(s, t) THEN
        [s EXCEPT !.is_end = TRUE]
    ELSE IF s.needs_followup /\ Truthy(s.previous_answer)
                /\ s.current_area # "Confirmation" THEN
        [s EXCEPT !.current_question = FollowUpQuestion,
                  !.current_area = "Follow-up",
                  !.needs_followup = FALSE]
    ELSE IF SelectLevel(s) = "none" THEN
        s
    ELSE
        LET level == SelectLevel(s)
            q_dict == s.difficulty_pools[level][i]
        IN [s EXCEPT !.current_difficulty = level,
                     !.difficulty_pools[level] = RemoveAt(@, i),
                     !.current_question = q_dict.text,
                     !.current_area = q_dict.area,
                     !.current_diff = level,
                     !.questions_asked = @ + 1]

(* prepare_question returns the state it mutated, so every key is written.
   i is the index of the question that shuffle+pop removes, t the clock.   *)
prepare_question(s, i, t) ==
    IF s.is_end THEN s
    ELSE IF ~s.intro_done THEN
        [s EXCEPT !.current_question = IntroQuestion,
                  !.current_area = "Introduction",
                  !.current_diff = "easy",
                  !.intro_done = TRUE]
    ELSE IF s.current_area = "Follow-up" THEN
        [s EXCEPT !.current_question = ConfirmationQuestion,
                  !.current_area = "Confirmation"]
    ELSE IF BudgetExhausted(s, t) THEN
        [s EXCEPT !.is_end = TRUE]
    ELSE IF s.needs_followup /\ Truthy(s.previous_answer)
                /\ s.current_area # "Confirmation" THEN
        [s EXCEPT !.current_question = FollowUpQuestion,
                  !.current_area = "Follow-up",
                  !.needs_followup = FALSE]
    ELSE IF SelectLevel(s) = "none" THEN
        [s EXCEPT !.is_end = TRUE]
    ELSE
        LET level == SelectLevel(s)
            q_dict == s.difficulty_pools[level][i]
        IN [s EXCEPT !.current_difficulty = level,
                     !.difficulty_pools[level] = RemoveAt(@, i),
                     !.current_question = q_dict.text,
                     !.current_area = q_dict.area,
                     !.current_diff = level,
                     !.questions_asked = @ + 1]

(* IsSkip without the lower-casing of the answer. *)
IsSkip_CaseSensitive(a) ==
    \/ Strip(a) = <<>>
    \/ Strip(a) \in {SkipWord, PassWord}

(* Line 161: not a.strip() or a.lower().strip() in ["skip", "pass"]. *)
IsSkip(a) ==
    \/ Strip(a) = <<>>
    \/ Strip(Lower(a)) \in {SkipWord, PassWord}

(* Line 147: a = state["user_answer"] or "". *)
AnswerText(s) == IF s.user_answer = NoneAnswer THEN <<>> ELSE s.user_answer

(* True when evaluate_and_generate_filler reaches llm.invoke (line 191). *)
CallsEvaluator(s) ==
    /\ s.current_area # "Confirmation"
    /\ ~IsSkip(AnswerText(s))

(* evaluate_and_generate_filler whose except branch leaves the turn
   unscored.                                                               *)
evaluate_and_generate_filler_Unscored(s, llm) ==
    LET a == AnswerText(s)
        allow_followup == (s.current_area # "Follow-up")
    IN
    IF s.current_area = "Confirmation" THEN
        [s EXCEPT !.score = None, !.feedback = NoneStr,
                  !.filler = "Great, let's continue.",
                  !.needs_followup = FALSE]
    ELSE IF IsSkip(a) THEN
        [s EXCEPT !.score = 0, !.feedback = "Skipped.",
                  !.filler = "Okay, moving on.",
                  !.needs_followup = FALSE]
    ELSE IF llm.ok THEN
        [s EXCEPT !.score = llm.score, !.feedback = "llm-feedback",
                  !.filler = "llm-filler",
                  !.needs_followup = IF allow_followup THEN llm.follow
                                     ELSE FALSE]
    ELSE
        [s EXCEPT !.score = None, !.feedback = "Evaluation Error",
                  !.filler = "Okay.",
                  !.needs_followup = FALSE]

(* evaluate_and_generate_filler returns a fresh four-key dict: only score,
   feedback, filler and needs_followup are written.  Its assignments to
   previous_question / previous_answer (lines 150-151) are made on the
   node's private input dict and are not part of the returned update.
   llm is the evaluator's reply: ok = FALSE when the call or the JSON
   parse raises.                                                           *)
evaluate_and_generate_filler(s, llm) ==
    LET a == AnswerText(s)
        allow_followup == (s.current_area # "Follow-up")
    IN
    IF s.current_area = "Confirmation" THEN
        [s EXCEPT !.score = None, !.feedback = NoneStr,
                  !.filler = "Great, let's continue.",
                  !.needs_followup = FALSE]
    ELSE IF IsSkip(a) THEN
        [s EXCEPT !.score = 0, !.feedback = "Skipped.",
                  !.filler = "Okay, moving on.",
                  !.needs_followup = FALSE]
    ELSE IF llm.ok THEN
        [s EXCEPT !.score = llm.score, !.feedback = "llm-feedback",
                  !.filler = "llm-filler",
                  !.needs_followup = IF allow_followup THEN llm.follow
                                     ELSE FALSE]
    ELSE
        [s EXCEPT !.score = 0, !.feedback = "Evaluation Error",
                  !.filler = "Okay.",
                  !.needs_followup = FALSE]

(* Line 215: score >= 75 raises TypeError when score is not a number. *)
AdjustRaises(s) == s.score = NotANumber

(* adjust_difficulty that tests the score for truth, so that a score of 0
   is passed over like None.                                               *)
adjust_difficulty_ZeroIgnored(s) ==
    IF s.score # None /\ s.score # 0 THEN
        LET score == s.score
            current == s.current_difficulty
        IN IF score >= 75 /\ current # "hard" THEN
               [s EXCEPT !.current_difficulty =
                    IF current = "medium" THEN "hard" ELSE "medium"]
           ELSE IF score < 45 /\ current # "easy" THEN
               [s EXCEPT !.current_difficulty =
                    IF current = "hard" THEN "medium" ELSE "easy"]
           ELSE s
    ELSE s

(* adjust_difficulty with score > 75 in place of score >= 75. *)
adjust_difficulty_Strict(s) ==
    IF s.score # None THEN
        LET score == s.score
            current == s.current_difficulty
        IN IF score > 75 /\ current # "hard" THEN
               [s EXCEPT !.current_difficulty =
                    IF current = "medium" THEN "hard" ELSE "medium"]
           ELSE IF score < 45 /\ current # "easy" THEN
               [s EXCEPT !.current_difficulty =
                    IF current = "hard" THEN "medium" ELSE "easy"]
           ELSE s
    ELSE s

adjust_difficulty(s) ==
    IF s.score # None THEN
        LET score == s.score
            current == s.current_difficulty
        IN IF score >= 75 /\ current # "hard" THEN
               [s EXCEPT !.current_difficulty =
                    IF current = "medium" THEN "hard" ELSE "medium"]
           ELSE IF score < 45 /\ current # "easy" THEN
               [s EXCEPT !.current_difficulty =
                    IF current = "hard" THEN "medium" ELSE "easy"]
           ELSE s
    ELSE s

(* process that records the tier after re-tuning instead of the tier the
   question was asked at.                                                  *)
process_RetunedTier(s) ==
    IF s.score # None /\ s.current_area # "Confirmation" THEN
        LET entry == [question |-> s.current_question,
                      answer |-> s.user_answer,
                      score |-> s.score,
                      feedback |-> s.feedback,
                      difficulty |-> s.current_difficulty]
        IN [s EXCEPT !.scores = Append(@, s.score),
                     !.transcript = Append(@, entry)]
    ELSE s

(* process that appends the transcript entry but not the score. *)
process_NoScoreAppend(s) ==
    IF s.score # None /\ s.current_area # "Confirmation" THEN
        LET entry == [question |-> s.current_question,
                      answer |-> s.user_answer,
                      score |-> s.score,
                      feedback |-> s.feedback,
                      difficulty |-> s.current_diff]
        IN [s EXCEPT !.transcript = Append(@, entry)]
    ELSE s

(* process without the test that the turn has a score. *)
process_Unscored(s) ==
    IF s.current_area # "Confirmation" THEN
        LET entry == [question |-> s.current_question,
                      answer |-> s.user_answer,
                      score |-> s.score,
                      feedback |-> s.feedback,
                      difficulty |-> s.current_diff]
        IN [s EXCEPT !.scores = Append(@, s.score),
                     !.transcript = Append(@, entry)]
    ELSE s

process(s) ==
    IF s.score # None /\ s.current_area # "Confirmation" THEN
        LET entry == [question |-> s.current_question,
                      answer |-> s.user_answer,
                      score |-> s.score,
                      feedback |-> s.feedback,
                      difficulty |-> s.current_diff]
        IN [s EXCEPT !.scores = Append(@, s.score),
                     !.transcript = Append(@, entry)]
    ELSE s

(* decide that routes an ended session back to prepare_question. *)
decide_NeverEnds(s) == "prepare_question"

decide(s) == IF s.is_end THEN "END" ELSE "prepare_question"

-----------------------------------------------------------------------------
(* src/backend/main.py and src/backend/api/index.py: the time-budget
   variant.  InterviewSession is the same class in both files; main.py
   keeps sessions in a module-level dict, index.py in SessionStore, which
   uses Redis when REDIS_URL is set and connects, else a local dict.       *)

Backends == {"memory", "local", "redis"}
Reqs == {1, 2}

MinDuration == 3          \* minutes; shorter durations are refused
ClosingPercent == 10      \* the closing window, percent of the duration
BackendClock == {0, 165, 180, 240}   \* clock values visited, seconds

Silence == <<"[SILENCE]">>
Concluded == <<"The interview has already concluded. Thank you.">>
Farewell ==
    <<"Thank you for your time today. This concludes our interview. Goodbye!">>
Closing ==
    <<"We're out of time. Thank you so much for your responses today. This concludes the interview.">>
Greeting == <<"greeting">>
LlmQuestion == <<"llm-question">>
LlmConclusion ==
    <<"Thank you for your time. This concludes the interview.">>
LlmReplies == {LlmQuestion, LlmConclusion}

(* What the client sends, or the transcription returns. *)
BackendTexts == { <<"o", "k">>, <<"y", "e", "s">> }

SystemMessage == [type |-> "system", content |-> <<"system_context">>, by |-> 0]
HumanMessage(content, n) == [type |-> "human", content |-> content, by |-> n]
AIMessage(content, n) == [type |-> "ai", content |-> content, by |-> n]

NoResume == "No resume provided."
ResumeTexts == {"", "Ann Lee, developer"}
SessionModes == {"voice", "chat"}
CandidateName == "Ann Lee"
RoleName == "developer"

(* InterviewSession.__init__: uuid is the value uuid4() returns, t the
   clock; times are kept in seconds, duration_minutes is a float of
   integral value.                                                         *)
InterviewSession(name, role, resume_text, duration_minutes, mode, uuid, t) ==
    [id |-> uuid,
     name |-> name,
     role |-> role,
     resume_text |-> IF resume_text = "" THEN NoResume ELSE resume_text,
     duration_minutes |-> duration_minutes,
     start_time |-> t,
     messages |-> <<SystemMessage>>,
     finished |-> FALSE,
     mode |-> mode]

NoSession == InterviewSession("", "", "", 0, "voice", "", 0)

(* str() of a non-negative number: its decimal digits. *)
Digit(d) == <<"0", "1", "2", "3", "4", "5", "6", "7", "8", "9">>[d + 1]

RECURSIVE Digits(_)
Digits(n) ==
    IF n < 10 THEN <<Digit(n)>>
    ELSE Digits(n \div 10) \o <<Digit(n % 10)>>

(* str(x) of a float of integral value x, such as "180.0". *)
str_float(x) == Digits(x) \o <<".", "0">>

(* str(b) of a bool. *)
str_bool(b) == IF b THEN "True" ELSE "False"

DigitValue(c) == CHOOSE d \in 0..9 : Digit(d) = c

RECURSIVE ParseDigits(_)
ParseDigits(s) ==
    IF s = <<>> THEN 0
    ELSE ParseDigits(SubSeq(s, 1, Len(s) - 1)) * 10 + DigitValue(s[Len(s)])

(* float(s) of a decimal string whose fraction is zero: the digits before
   the point.                                                              *)
float(s) ==
    LET point == CHOOSE k \in 1..Len(s) : s[k] = "."
    IN ParseDigits(SubSeq(s, 1, point - 1))

(* messages_to_dict: one {"type", "data"} dict per message, in order. *)
messages_to_dict(messages) ==
    [k \in 1..Len(messages) |->
        [type |-> messages[k].type,
         data |-> [content |-> messages[k].content, by |-> messages[k].by]]]

(* messages_from_dict: the message class is chosen by "type". *)
messages_from_dict(dicts) ==
    [k \in 1..Len(dicts) |->
        IF dicts[k].type = "human"
        THEN HumanMessage(dicts[k].data.content, dicts[k].data.by)
        ELSE IF dicts[k].type = "ai"
        THEN AIMessage(dicts[k].data.content, dicts[k].data.by)
        ELSE [SystemMessage EXCEPT !.content = dicts[k].data.content,
                                   !.by = dicts[k].data.by]]

(* SessionStore.save, lines 188-199: the hash written to Redis. *)
dump_session(session) ==
    [id |-> session.id,
     name |-> session.name,
     role |-> session.role,
     resume_text |-> session.resume_text,
     duration_minutes |-> str_float(session.duration_minutes),
     start_time |-> str_float(session.start_time),
     finished |-> str_bool(session.finished),
     mode |-> session.mode,
     messages |-> messages_to_dict(session.messages)]

(* load_session without session.memory.clear(). *)
load_session_NoClear(data, uuid, t) ==
    LET session == InterviewSession(data.name, data.role, data.resume_text,
                                    float(data.duration_minutes), data.mode,
                                    uuid, t)
        msgs == messages_from_dict(data.messages)
    IN [session EXCEPT !.id = data.id,
                       !.start_time = float(data.start_time),
                       !.finished = (data.finished = "True"),
                       !.messages = @ \o msgs]

(* SessionStore.get, lines 218-236: a new InterviewSession is constructed
   (with its own uuid, clock and system message) and id, start_time,
   finished and the messages are then overwritten from the hash.           *)
load_session(data, uuid, t) ==
    LET session == InterviewSession(data.name, data.role, data.resume_text,
                                    float(data.duration_minutes), data.mode,
                                    uuid, t)
        msgs == messages_from_dict(data.messages)
    IN [session EXCEPT !.id = data.id,
                       !.start_time = float(data.start_time),
                       !.finished = (data.finished = "True"),
                       !.messages = msgs]

NoStore ==
    [exists |-> FALSE, session |-> NoSession, data |-> dump_session(NoSession)]

(* SessionStore.save: Redis gets the serialised hash, local_cache the
   object.  main.py has no store: its requests mutate the object that the
   sessions dict holds (or held), which enters the dict at start only.     *)
SessionStore_save(b, st, session) ==
    IF b = "redis"
    THEN [st EXCEPT !.exists = TRUE, !.data = dump_session(session)]
    ELSE IF b = "local"
    THEN [st EXCEPT !.exists = TRUE, !.session = session]
    ELSE [st EXCEPT !.session = session]

(* SessionStore.get of an existing session at clock t. *)
SessionStore_get(b, st, t) ==
    IF b = "redis"
    THEN load_session(st.data, "uuid-of-copy", t)
    ELSE st.session

IdleReq ==
    [pc |-> "idle", n |-> 0, session |-> NoSession, overlapped |-> FALSE,
     status |-> 0, finished |-> FALSE, ai_text |-> <<>>,
     remaining |-> 0, was_finished |-> FALSE, llm_called |-> FALSE,
     report |-> NoneStr]

(* get_remaining_time without the max(0.0, ...). *)
get_remaining_time_NoFloor(sess, t) ==
    sess.duration_minutes * 60 - (t - sess.start_time)

(* get_remaining_time, in seconds: max(0, duration - elapsed). *)
get_remaining_time(sess, t) ==
    LET remaining == sess.duration_minutes * 60 - (t - sess.start_time)
    IN IF remaining > 0 THEN remaining ELSE 0

(* The closing window at half its width. *)
InClosingWindow_Half(sess, t) ==
    get_remaining_time(sess, t) * 200
        < sess.duration_minutes * 60 * ClosingPercent

(* remaining < duration_minutes * 0.10, both sides in seconds times 100. *)
InClosingWindow(sess, t) ==
    get_remaining_time(sess, t) * 100
        < sess.duration_minutes * 60 * ClosingPercent

(* "concludes the interview" / "concludes our interview" /
   "thank you for your time" occurs in the lower-cased reply.             *)
SaysGoodbye(content) == content = LlmConclusion

(* get_response up to its await of llm.ainvoke: the human message is
   appended first, then the finished / time checks run.  awaiting = TRUE
   when control reaches the LLM call.                                      *)
get_response_begin(sess, user_input, is_silence, t, n) ==
    LET human == HumanMessage(IF is_silence THEN Silence ELSE user_input, n)
        s1 == [sess EXCEPT !.messages = Append(@, human)]
    IN IF s1.finished THEN
           [session |-> s1, awaiting |-> FALSE, reply |-> Concluded]
       ELSE IF get_remaining_time(s1, t) <= 0 THEN
           [session |-> [s1 EXCEPT !.finished = TRUE,
                                   !.messages = Append(@, AIMessage(Farewell, n))],
            awaiting |-> FALSE, reply |-> Farewell]
       ELSE IF InClosingWindow(s1, t) THEN
           [session |-> [s1 EXCEPT !.finished = TRUE,
                                   !.messages = Append(@, AIMessage(Closing, n))],
            awaiting |-> FALSE, reply |-> Closing]
       ELSE
           [session |-> s1, awaiting |-> TRUE, reply |-> <<>>]

(* get_response after llm.ainvoke returned resp_content. *)
get_response_finish(sess, resp_content, n) ==
    [sess EXCEPT !.finished = IF SaysGoodbye(resp_content) THEN TRUE ELSE @,
                 !.messages = Append(@, AIMessage(resp_content, n))]

(* With Redis every request works on its own deserialised copy of the
   session; with a dict every request holds the one shared object.         *)
Shared == backend # "redis"

(* The session object request r works on. *)
SessionOf(r) == IF Shared THEN store.session ELSE reqs[r].session

InFlight(r) == reqs[r].pc \in {"transcribing", "awaiting_llm"}

(* POST /start_interview of the backend: the session is created with the
   system message, the greeting is appended and the session is stored.     *)
backend_start(b, duration, mode, resume_text) ==
    /\ ~store.exists
    /\ served = 0
    /\ duration >= MinDuration
    /\ (b = "memory") => (resume_text # "")
    /\ backend' = b
    /\ LET session == InterviewSession(CandidateName, RoleName, resume_text,
                                       duration, mode, "uuid-1", now)
       IN store' = [SessionStore_save(b, store,
                      [session EXCEPT
                         !.messages = Append(@, AIMessage(Greeting, 0))])
                    EXCEPT !.exists = TRUE]
    /\ UNCHANGED <<reqs, served, now>>
    /\ UNCHANGED appvars

(* The part shared by process_text and process_audio: get_response is
   entered with the session sess; the request either completes (and the
   session is saved) or is suspended at the LLM call.                      *)
EnterGetResponse(r, sess, user_text, is_silence, n) ==
    LET out == get_response_begin(sess, user_text, is_silence, now, n) IN
    /\ reqs' = [reqs EXCEPT ![r] =
            [@ EXCEPT !.pc = IF out.awaiting THEN "awaiting_llm" ELSE "done",
                      !.n = n,
                      !.overlapped = (\E o \in Reqs \ {r} : InFlight(o)),
                      !.session = IF Shared THEN NoSession ELSE out.session,
                      !.status = IF out.awaiting THEN 0 ELSE 200,
                      !.finished = out.session.finished,
                      !.ai_text = out.reply,
                      !.remaining = get_remaining_time(sess, now),
                      !.was_finished = sess.finished,
                      !.llm_called = out.awaiting,
                      !.report = NoneStr]]
    /\ store' = IF Shared \/ ~out.awaiting
                THEN SessionStore_save(backend, store, out.session)
                ELSE store

(* POST /process_text. *)
process_text(r, text, is_silence) ==
    /\ reqs[r].pc \in {"idle", "done"}
    /\ served < env.max_requests
    /\ backend' = backend
    /\ IF ~store.exists
       THEN /\ reqs' = [reqs EXCEPT ![r] = [IdleReq EXCEPT !.pc = "done",
                                                            !.status = 404]]
            /\ UNCHANGED <<store, served>>
       ELSE /\ served' = served + 1
            /\ EnterGetResponse(r, SessionStore_get(backend, store, now),
                                text, is_silence, served + 1)
    /\ UNCHANGED now
    /\ UNCHANGED appvars

(* POST /process_audio up to its await of file.read(): the session is
   looked up first.                                                        *)
process_audio(r) ==
    /\ reqs[r].pc \in {"idle", "done"}
    /\ served < env.max_requests
    /\ IF ~store.exists
       THEN /\ reqs' = [reqs EXCEPT ![r] = [IdleReq EXCEPT !.pc = "done",
                                                            !.status = 404]]
            /\ UNCHANGED served
       ELSE /\ served' = served + 1
            /\ reqs' = [reqs EXCEPT ![r] =
                    [IdleReq EXCEPT !.pc = "transcribing",
                                    !.n = served + 1,
                                    !.session =
                                        IF Shared THEN NoSession
                                        ELSE SessionStore_get(backend, store,
                                                              now)]]
    /\ UNCHANGED <<backend, store, now>>
    /\ UNCHANGED appvars

(* process_audio after the upload was read and transcribed to user_text
   (empty when transcription raised): fewer than 3 characters count as
   silence.                                                                *)
process_audio_transcribed(r, user_text) ==
    /\ reqs[r].pc = "transcribing"
    /\ LET is_silence == user_text = <<>> \/ Len(Strip(user_text)) < 3
           text == IF is_silence THEN Silence ELSE user_text
       IN EnterGetResponse(r, SessionOf(r), text, is_silence, reqs[r].n)
    /\ UNCHANGED <<backend, served, now>>
    /\ UNCHANGED appvars

(* llm.ainvoke returns resp_content to the suspended request r, which
   appends the reply and returns; index.py then saves the session.         *)
llm_reply(r, resp_content) ==
    /\ reqs[r].pc = "awaiting_llm"
    /\ LET sess == get_response_finish(SessionOf(r), resp_content, reqs[r].n)
       IN /\ store' = SessionStore_save(backend, store, sess)
          /\ reqs' = [reqs EXCEPT ![r] =
                  [@ EXCEPT !.pc = "done",
                            !.status = 200,
                            !.session = IF Shared THEN NoSession ELSE sess,
                            !.finished = sess.finished,
                            !.ai_text = resp_content]]
    /\ UNCHANGED <<backend, served, now>>
    /\ UNCHANGED appvars

(* Length the LLM's question is taken to have, in characters. *)
LlmQuestionChars == 30
MinTranscriptChars == 50

(* AI messages generate_report leaves out of the transcript: the lower-
   cased content holds "thank you for joining" or "this concludes".        *)
LeftOut(content) == content \in {Greeting, Farewell, Closing, LlmConclusion}

(* Characters one message adds to the transcript of generate_report:
   "Candidate: ...\n" or "Interviewer: ...\n"; silence and the empty
   answer are printed as "[No Response / Silence]".                        *)
LineChars(m) ==
    IF m.type = "human"
    THEN 11 + (IF m.content \in {Silence, <<>>} THEN 23 ELSE Len(m.content))
            + 1
    ELSE IF m.type = "ai" /\ ~LeftOut(m.content)
    THEN 13 + LlmQuestionChars + 1
    ELSE 0

RECURSIVE TranscriptChars(_)
TranscriptChars(messages) ==
    IF messages = <<>> THEN 0
    ELSE TranscriptChars(SubSeq(messages, 1, Len(messages) - 1))
            + LineChars(messages[Len(messages)])

(* len(transcript.strip()): the last newline does not count. *)
StrippedChars(messages) ==
    IF TranscriptChars(messages) = 0 THEN 0
    ELSE TranscriptChars(messages) - 1

(* GET /generate_report up to its await of chain.ainvoke: 404 for an
   unknown id, the fixed insufficient-transcript report for a transcript
   shorter than 50 characters.                                             *)
generate_report(r) ==
    /\ reqs[r].pc \in {"idle", "done"}
    /\ reqs' = [reqs EXCEPT ![r] =
          IF ~store.exists
          THEN [IdleReq EXCEPT !.pc = "done", !.status = 404]
          ELSE IF StrippedChars(SessionStore_get(backend, store, now).messages)
                    < MinTranscriptChars
          THEN [IdleReq EXCEPT !.pc = "done", !.status = 200,
                               !.report = "insufficient-report"]
          ELSE [IdleReq EXCEPT !.pc = "awaiting_report"]]
    /\ UNCHANGED <<backend, store, served, now>>
    /\ UNCHANGED appvars

(* report_reply that removes the session of main.py on failure as well. *)
report_reply_DeleteAlways(r, ok) ==
    /\ reqs[r].pc = "awaiting_report"
    /\ reqs' = [reqs EXCEPT ![r] =
          [IdleReq EXCEPT !.pc = "done", !.status = 200,
                          !.report = IF ok THEN "llm-report"
                                     ELSE "error-report"]]
    /\ store' = IF backend = "memory"
                THEN [store EXCEPT !.exists = FALSE]
                ELSE store
    /\ UNCHANGED <<backend, served, now>>
    /\ UNCHANGED appvars

(* chain.ainvoke returns to the suspended generate_report: ok = FALSE when
   the call or the parser raised, which yields the fixed error report.
   main.py deletes the session after a successful report; index.py never
   does.                                                                   *)
report_reply(r, ok) ==
    /\ reqs[r].pc = "awaiting_report"
    /\ reqs' = [reqs EXCEPT ![r] =
          [IdleReq EXCEPT !.pc = "done", !.status = 200,
                          !.report = IF ok THEN "llm-report"
                                     ELSE "error-report"]]
    /\ store' = IF ok /\ backend = "memory"
                THEN [store EXCEPT !.exists = FALSE]
                ELSE store
    /\ UNCHANGED <<backend, served, now>>
    /\ UNCHANGED appvars

(* Wall-clock time passes for the backend session. *)
BackendTick ==
    /\ store.exists
    /\ \E t \in BackendClock : t > now /\ now' = t
    /\ UNCHANGED backvars
    /\ UNCHANGED appvars

-----------------------------------------------------------------------------
(* src/app.py: inputs of the endpoints *)

(* What a candidate may type. *)
Ok == <<"o", "k">>
Answers ==
    { <<>>,
      <<" ", "\t">>,
      <<"s", "k", "i", "p">>,
      <<" ", "S", "k", "I", "p", "\t">>,
      <<"P", "A", "S", "S", " ">>,
      <<"s", "k", "i", "p", "s">>,
      <<"s", " ", "k", "i", "p">>,
      Ok }

(* What the evaluator may put in "score" (null included). *)
LlmScores == {None, 30, 44, 45, 60, 74, 75, 80}

EvaluatorReplies ==
    [ok : {TRUE}, score : LlmScores, follow : BOOLEAN]
        \cup {[ok |-> FALSE, score |-> 0, follow |-> FALSE]}

NoReply == [ok |-> FALSE, score |-> 0, follow |-> FALSE]

(* The question generator's reply: n questions of one difficulty. *)
GenQuestions(d, n) ==
    [k \in 1..n |-> [text |-> d \o "-q" \o ToString(k),
                     area |-> "Technical", difficulty |-> d]]

(* Replies with up to MaxPool questions per tier and possibly one question
   whose difficulty is none of the three tiers.                            *)
GeneratorReplies ==
    { GenQuestions("easy", ne) \o GenQuestions("medium", nm)
        \o GenQuestions("hard", nh) \o GenQuestions("expert", nx) :
        ne \in 0..MaxPool, nm \in 0..MaxPool, nh \in 0..MaxPool,
        nx \in 0..1 }

(* The generator step without the except branch's fallback question. *)
generated_questions_NoFallback(gen_ok, questions) == questions

(* Lines 294-299: the generator call, the parse and data["questions"] are
   in one try block; any exception yields the one fallback question.       *)
generated_questions(gen_ok, questions) ==
    IF gen_ok THEN questions ELSE <<FallbackQuestion>>

(* Lines 301-304: questions are bucketed by difficulty, others dropped. *)
BuildPools(questions) ==
    [d \in Levels |->
        LET IsLevel(q) == q.difficulty = d
        IN SelectSeq(questions, IsLevel)]

NoReport == [details |-> "None", transcript |-> <<>>, scores |-> <<>>]

NoResponse ==
    [status |-> 0, is_end |-> FALSE, message |-> NoneStr,
     report_data |-> NoReport]

(* An exception that leaves the endpoint: FastAPI answers 500. *)
ServerError ==
    [status |-> 500, is_end |-> FALSE, message |-> "Internal Server Error",
     report_data |-> NoReport]

(* Positions of a thread whose last step raised: the node is still pending. *)
CrashedAt == {"adjust_difficulty", "prepare_question"}

NoBefore == [user_answer |-> NoneAnswer, score |-> None]

NoLast ==
    [op |-> "none", was_next |-> "none", area |-> NoneStr, skip |-> FALSE,
     evaluator_called |-> FALSE, tlen |-> 0, difficulty |-> "easy",
     asked |-> 0, pools |-> [d \in Levels |-> <<>>], over |-> FALSE,
     adjusted |-> "easy", was_end |-> FALSE, eval_failed |-> FALSE,
     gen_failed |-> FALSE, followup_failed |-> FALSE, before |-> NoBefore,
     recommended |-> FALSE]

(* The State passed to the graph by start_interview (lines 311-330). *)
initial_state(mode, limit, pools, t) ==
    [mode |-> mode,
     limit |-> limit,
     start_time |-> t,
     difficulty_pools |-> pools,
     current_difficulty |-> "easy",
     questions_asked |-> 0,
     intro_done |-> FALSE,
     current_question |-> NoneStr,
     current_area |-> NoneStr,
     current_diff |-> NoneStr,
     scores |-> <<>>,
     transcript |-> <<>>,
     user_answer |-> NoneAnswer,
     feedback |-> NoneStr,
     score |-> None,
     filler |-> NoneStr,
     is_end |-> FALSE,
     needs_followup |-> FALSE,
     previous_answer |-> NoneAnswer,
     previous_question |-> NoneStr]

(* No thread exists yet: a placeholder of the State shape. *)
NoState == initial_state("count", 0, [d \in Levels |-> <<>>], 0)

(* The second thread before its start_interview. *)
NoPeer == [state |-> NoState, next |-> "none"]

(* What a client sends to the backend's start_interview besides name, role
   and duration.                                                           *)
PlainStart == [mode |-> "voice", resume_text |-> "Ann Lee, developer"]
BackendStarts == [mode : SessionModes, resume_text : ResumeTexts]

(* The environment of a run: the answers the candidate types, the replies
   the evaluator gives, how many answers are submitted, and for the
   backend the start requests and the number of answer requests.           *)
FlowEnv ==
    [answers |-> {<<>>, Ok},
     replies |-> {[ok |-> TRUE, score |-> None, follow |-> TRUE],
                  [ok |-> TRUE, score |-> 60, follow |-> FALSE],
                  [ok |-> TRUE, score |-> 80, follow |-> TRUE],
                  [ok |-> FALSE, score |-> 0, follow |-> FALSE]},
     max_submits |-> MaxSubmits,
     starts |-> {PlainStart},
     max_requests |-> MaxRequests]

(* Every spelling of an answer, one evaluator reply that recommends a
   follow-up, few submissions.                                             *)
SkipEnv ==
    [answers |-> Answers,
     replies |-> {[ok |-> TRUE, score |-> 60, follow |-> TRUE]},
     max_submits |-> MaxSubmits - 2,
     starts |-> {PlainStart},
     max_requests |-> MaxRequests]

(* One answer; the evaluator replies with a number or with a score that is
   not a number; few submissions.                                          *)
FailEnv ==
    [answers |-> {Ok},
     replies |-> {[ok |-> TRUE, score |-> 60, follow |-> FALSE],
                  [ok |-> TRUE, score |-> NotANumber, follow |-> FALSE]},
     max_submits |-> MaxSubmits - 1,
     starts |-> {PlainStart},
     max_requests |-> MaxRequests]

(* The backend with every mode and resume, few requests. *)
StoreEnv ==
    [answers |-> {Ok},
     replies |-> {[ok |-> TRUE, score |-> 60, follow |-> FALSE]},
     max_submits |-> 0,
     starts |-> BackendStarts,
     max_requests |-> MaxRequests - 1]

(* The backend with report requests, few answer requests. *)
ReportEnv ==
    [answers |-> {Ok},
     replies |-> {[ok |-> TRUE, score |-> 60, follow |-> FALSE]},
     max_submits |-> 0,
     starts |-> {PlainStart},
     max_requests |-> MaxRequests - 1]

(* Two threads: one answer, one evaluator reply, few submissions. *)
TwoEnv ==
    [answers |-> {Ok},
     replies |-> {[ok |-> TRUE, score |-> 80, follow |-> FALSE]},
     max_submits |-> MaxSubmits - 1,
     starts |-> {PlainStart},
     max_requests |-> MaxRequests]

(* One answer, every evaluator score, few submissions. *)
RatchetEnv ==
    [answers |-> {Ok},
     replies |-> [ok : {TRUE}, score : LlmScores, follow : {FALSE}],
     max_submits |-> MaxSubmits - 1,
     starts |-> {PlainStart},
     max_requests |-> MaxRequests]

(* A candidate who keeps answering: one answer, an evaluator that scores
   or recommends a follow-up, and as many submissions as the largest pools
   need to run empty, be found empty and reach END.                        *)
LiveEnv ==
    [answers |-> {Ok},
     replies |-> {[ok |-> TRUE, score |-> 60, follow |-> FALSE],
                  [ok |-> TRUE, score |-> None, follow |-> TRUE]},
     max_submits |-> 3 * MaxPool + 2,
     starts |-> {PlainStart},
     max_requests |-> MaxRequests]

InitWith(e) ==
    /\ state = NoState
    /\ next = "none"
    /\ resp = NoResponse
    /\ now = 0
    /\ submits = 0
    /\ last = NoLast
    /\ env = e
    /\ strays = 0
    /\ peer = NoPeer
    /\ backend = "memory"
    /\ store = NoStore
    /\ reqs = [r \in Reqs |-> IdleReq]
    /\ served = 0

Init == InitWith(FlowEnv)

(* POST /start_interview.  gen_ok = FALSE when the generator call or its
   JSON parse raises (lines 294-299).  The graph runs START ->
   prepare_question and is interrupted before human_feedback.              *)
start_interview(mode, limit, gen_ok, questions) ==
    /\ next = "none"
    /\ LET qs == generated_questions(gen_ok, questions)
           pools == BuildPools(qs)
           s0 == initial_state(mode, limit, pools, now)
           s1 == prepare_question(s0, 1, now)
       IN /\ state' = s1
          /\ next' = "human_feedback"
          /\ resp' = [status |-> 200, is_end |-> FALSE,
                      message |-> s1.current_question,
                      report_data |-> NoReport]
          /\ last' = [NoLast EXCEPT !.op = "start", !.gen_failed = ~gen_ok,
                                    !.pools = pools]
    /\ UNCHANGED <<now, submits, env, strays, peer>>
    /\ UNCHANGED backvars

(* report_response whose fallback branch returns no transcript or scores. *)
report_response_Dropped(s, ends, report_ok) ==
    IF ends
    THEN [status |-> 200, is_end |-> TRUE, message |-> "Interview Complete.",
          report_data |->
            IF report_ok
            THEN [details |-> "llm-report", transcript |-> s.transcript,
                  scores |-> s.scores]
            ELSE [details |-> "fallback-report", transcript |-> <<>>,
                  scores |-> <<>>]]
    ELSE [status |-> 200, is_end |-> FALSE, message |-> s.current_question,
          report_data |-> NoReport]

(* Lines 352-400: the body returned by submit_answer; the report call and
   its parse are in a try block with a fixed fallback report.              *)
report_response(s, ends, report_ok) ==
    IF ends
    THEN [status |-> 200, is_end |-> TRUE, message |-> "Interview Complete.",
          report_data |->
            [details |-> IF report_ok THEN "llm-report"
                         ELSE "fallback-report",
             transcript |-> s.transcript,
             scores |-> s.scores]]
    ELSE [status |-> 200, is_end |-> FALSE, message |-> s.current_question,
          report_data |-> NoReport]

(* POST /submit_answer for the thread.  update_state(as_node=
   "human_feedback") writes user_answer and makes
   evaluate_and_generate_filler the next node whatever the thread's
   position was; stream(None) then runs evaluate_and_generate_filler ->
   adjust_difficulty -> process -> decide, and either stops at END or runs
   prepare_question and is interrupted before human_feedback (the edge
   prepare_question -> human_feedback is unconditional).                   *)
submit_answer(answer, llm, i, report_ok) ==
    /\ next # "none"
    /\ submits < env.max_submits
    /\ \E stuck \in (IF next \in CrashedAt THEN BOOLEAN ELSE {FALSE}),
          fq_ok \in BOOLEAN :
       LET s0 == [state EXCEPT !.user_answer = answer]
           s1 == evaluate_and_generate_filler(s0, llm)
           adjust_raises == ~stuck /\ AdjustRaises(s1)
           s2 == adjust_difficulty(s1)
           s3 == process(s2)
           ends == (decide(s3) = "END")
           reaches_prepare == ~stuck /\ ~adjust_raises /\ ~ends
           prepare_raises == /\ reaches_prepare
                             /\ GeneratesFollowUp(s3, now)
                             /\ ~fq_ok
           raised == stuck \/ adjust_raises \/ prepare_raises
           s4 == IF ends THEN s3 ELSE prepare_question(s3, i, now)
       IN /\ llm \in (IF ~stuck /\ CallsEvaluator(s0) THEN env.replies
                      ELSE {NoReply})
          /\ fq_ok \in (IF reaches_prepare /\ GeneratesFollowUp(s3, now)
                        THEN BOOLEAN ELSE {TRUE})
          /\ i \in (IF raised \/ ends THEN {1} ELSE PickChoices(s3, now))
          /\ report_ok \in (IF ends /\ ~raised THEN BOOLEAN ELSE {TRUE})
          /\ state' = IF stuck THEN s0
                      ELSE IF adjust_raises THEN s1
                      ELSE IF prepare_raises THEN s3
                      ELSE s4
          /\ next' = IF stuck THEN next
                     ELSE IF adjust_raises THEN "adjust_difficulty"
                     ELSE IF prepare_raises THEN "prepare_question"
                     ELSE IF ends THEN "END" ELSE "human_feedback"
          /\ resp' = IF raised THEN ServerError
                     ELSE report_response(s4, ends, report_ok)
          /\ last' = [op |-> IF raised THEN "submit_error" ELSE "submit",
                      was_next |-> next,
                      area |-> state.current_area,
                      skip |-> IsSkip(answer),
                      evaluator_called |-> ~stuck /\ CallsEvaluator(s0),
                      tlen |-> Len(state.transcript),
                      difficulty |-> state.current_difficulty,
                      asked |-> state.questions_asked,
                      pools |-> state.difficulty_pools,
                      over |-> BudgetExhausted(state, now),
                      adjusted |-> IF raised THEN state.current_difficulty
                                   ELSE s2.current_difficulty,
                      was_end |-> state.is_end,
                      eval_failed |-> /\ ~stuck
                                      /\ CallsEvaluator(s0)
                                      /\ ~llm.ok,
                      gen_failed |-> FALSE,
                      followup_failed |-> prepare_raises,
                      before |-> IF raised
                                 THEN [user_answer |-> state.user_answer,
                                       score |-> state.score]
                                 ELSE NoBefore,
                      recommended |-> ~raised /\ s1.needs_followup]
    /\ submits' = submits + 1
    /\ UNCHANGED <<now, env, strays, peer>>
    /\ UNCHANGED backvars

(* POST /submit_answer with a thread_id that no start_interview returned.
   update_state creates the thread with user_answer as its only key; the
   stream then runs evaluate_and_generate_filler, whose read of
   state["current_question"] (line 146) raises KeyError.  No handler
   catches it and no check of the id precedes it (lines 344-350).          *)
submit_answer_unknown ==
    /\ strays < MaxStrays
    /\ submits < env.max_submits
    /\ strays' = strays + 1
    /\ resp' = ServerError
    /\ last' = [NoLast EXCEPT !.op = "submit_unknown", !.was_next = next,
                              !.tlen = Len(state.transcript),
                              !.asked = state.questions_asked]
    /\ submits' = submits + 1
    /\ UNCHANGED <<state, next, now, env, peer>>
    /\ UNCHANGED backvars

(* POST /start_interview a second time: uuid4 gives the new thread an id
   of its own, and the checkpointer keeps its State under that id.         *)
peer_start(mode, limit, gen_ok, questions) ==
    /\ peer.next = "none"
    /\ LET pools == BuildPools(generated_questions(gen_ok, questions))
           s0 == initial_state(mode, limit, pools, now)
       IN peer' = [state |-> prepare_question(s0, 1, now),
                   next |-> "human_feedback"]
    /\ UNCHANGED <<state, next, resp, now, submits, last, env, strays>>
    /\ UNCHANGED backvars

(* peer_submit with one pools object shared by the two threads: what the
   second thread pops is gone from the first thread's pools too.           *)
peer_submit_SharedPools(answer, llm, i) ==
    /\ peer.next # "none"
    /\ submits < env.max_submits
    /\ LET s0 == [peer.state EXCEPT !.user_answer = answer]
           s1 == evaluate_and_generate_filler(s0, llm)
           s2 == adjust_difficulty(s1)
           s3 == process(s2)
           ends == (decide(s3) = "END")
           s4 == IF ends THEN s3 ELSE prepare_question(s3, i, now)
       IN /\ llm \in (IF CallsEvaluator(s0) THEN env.replies ELSE {NoReply})
          /\ ~AdjustRaises(s1)
          /\ ends \/ ~GeneratesFollowUp(s3, now)
          /\ i \in (IF ends THEN {1} ELSE PickChoices(s3, now))
          /\ peer' = [state |-> s4,
                      next |-> IF ends THEN "END" ELSE "human_feedback"]
          /\ state' = [state EXCEPT !.difficulty_pools = s4.difficulty_pools]
    /\ submits' = submits + 1
    /\ UNCHANGED <<next, resp, now, last, env, strays>>
    /\ UNCHANGED backvars

(* POST /submit_answer with the second thread's id, for a turn in which no
   node raises: update_state and stream read and write the checkpoints of
   that thread_id only.                                                    *)
peer_submit(answer, llm, i) ==
    /\ peer.next # "none"
    /\ submits < env.max_submits
    /\ LET s0 == [peer.state EXCEPT !.user_answer = answer]
           s1 == evaluate_and_generate_filler(s0, llm)
           s2 == adjust_difficulty(s1)
           s3 == process(s2)
           ends == (decide(s3) = "END")
           s4 == IF ends THEN s3 ELSE prepare_question(s3, i, now)
       IN /\ llm \in (IF CallsEvaluator(s0) THEN env.replies ELSE {NoReply})
          /\ ~AdjustRaises(s1)
          /\ ends \/ ~GeneratesFollowUp(s3, now)
          /\ i \in (IF ends THEN {1} ELSE PickChoices(s3, now))
          /\ peer' = [state |-> s4,
                      next |-> IF ends THEN "END" ELSE "human_feedback"]
          /\ state' = state
    /\ submits' = submits + 1
    /\ UNCHANGED <<next, resp, now, last, env, strays>>
    /\ UNCHANGED backvars

(* Wall-clock time passes.  Only a time-mode session reads the clock. *)
Tick ==
    /\ next # "none"
    /\ state.mode = "time"
    /\ now + TickSeconds <= MaxClock
    /\ now' = now + TickSeconds
    /\ UNCHANGED <<state, next, resp, submits, last, env, strays, peer>>
    /\ UNCHANGED backvars

StartStep ==
    \E mode \in Modes, limit \in 1..MaxLimit, gen_ok \in BOOLEAN,
       questions \in GeneratorReplies :
        /\ (~gen_ok => questions = <<>>)
        /\ start_interview(mode, limit, gen_ok, questions)

SubmitStep ==
    \E answer \in env.answers, llm \in env.replies \cup {NoReply},
       i \in 1..(MaxPool + 1), report_ok \in BOOLEAN :
        submit_answer(answer, llm, i, report_ok)

Next == StartStep \/ SubmitStep \/ Tick

Spec == Init /\ [][Next]_vars

(* Two threads in one checkpointer. *)
PeerStartStep ==
    \E mode \in Modes, limit \in 1..MaxLimit, gen_ok \in BOOLEAN,
       questions \in {GenQuestions("easy", 1) \o GenQuestions("medium", 1)} :
        peer_start(mode, limit, gen_ok, questions)

PeerSubmitStep ==
    \E answer \in env.answers, llm \in env.replies \cup {NoReply},
       i \in 1..(MaxPool + 1) :
        peer_submit(answer, llm, i)

NextTwo == StartStep \/ SubmitStep \/ Tick \/ PeerStartStep \/ PeerSubmitStep

InitTwo == InitWith(TwoEnv)

SpecTwo == InitTwo /\ [][NextTwo]_vars

(* The graph with an evaluator that may return a score that is not a
   number, and with submissions under unknown thread ids.                  *)
UnknownStep == submit_answer_unknown

NextFail == StartStep \/ SubmitStep \/ Tick \/ UnknownStep

InitFail == InitWith(FailEnv)

SpecFail == InitFail /\ [][NextFail]_vars

BackendStartStep ==
    \E b \in Backends, duration \in {MinDuration}, start \in env.starts :
        backend_start(b, duration, start.mode, start.resume_text)

ProcessTextStep ==
    \E r \in Reqs, text \in BackendTexts, is_silence \in BOOLEAN :
        process_text(r, text, is_silence)

ProcessAudioStep == \E r \in Reqs : process_audio(r)

TranscribedStep ==
    \E r \in Reqs, user_text \in BackendTexts \cup {<<>>} :
        process_audio_transcribed(r, user_text)

LlmReplyStep ==
    \E r \in Reqs, resp_content \in LlmReplies : llm_reply(r, resp_content)

NextBackend ==
    \/ BackendStartStep
    \/ ProcessTextStep
    \/ ProcessAudioStep
    \/ TranscribedStep
    \/ LlmReplyStep
    \/ BackendTick

InitBackend == InitWith(FlowEnv)
SpecBackend == InitBackend /\ [][NextBackend]_vars

GenerateReportStep == \E r \in Reqs : generate_report(r)

ReportReplyStep == \E r \in Reqs, ok \in BOOLEAN : report_reply(r, ok)

NextReport == NextBackend \/ GenerateReportStep \/ ReportReplyStep

InitReport == InitWith(ReportEnv)

SpecReport == InitReport /\ [][NextReport]_vars

InitStore == InitWith(StoreEnv)

SpecStore == InitStore /\ [][NextBackend]_vars

InitSkip == InitWith(SkipEnv)
SpecSkip == InitSkip /\ [][Next]_vars

InitRatchet == InitWith(RatchetEnv)
SpecRatchet == InitRatchet /\ [][Next]_vars

(* The candidate keeps submitting: while the thread exists and accepts a
   submission, one is eventually made.  SubmitStep is the only step of
   Next that counts a submission, and it is enabled exactly when
   KeepsSubmitting is.  The clock is free to stand still.                  *)
KeepsSubmitting ==
    /\ next # "none"
    /\ submits < env.max_submits
    /\ submits' = submits + 1

InitLive == InitWith(LiveEnv)
SpecLive == InitLive /\ [][Next]_vars /\ WF_submits(KeepsSubmitting)

-----------------------------------------------------------------------------
(* Properties of the interview graph (src/app.py) *)

PoolTotal(s) ==
    Len(s.difficulty_pools["easy"]) + Len(s.difficulty_pools["medium"])
        + Len(s.difficulty_pools["hard"])

Submitted == last.op = "submit"

(* C1: a submitted answer adds exactly one transcript entry (that turn's
   question, answer and score) when the turn produced a non-null score,
   and adds nothing otherwise; a Confirmation turn never adds an entry.    *)
C1_TranscriptIffScored ==
    Submitted =>
        /\ state.score # None =>
              /\ Len(state.transcript) = last.tlen + 1
              /\ state.transcript[Len(state.transcript)].score = state.score
              /\ state.transcript[Len(state.transcript)].answer
                    = state.user_answer
        /\ state.score = None => Len(state.transcript) = last.tlen
        /\ last.area = "Confirmation" => Len(state.transcript) = last.tlen

(* A scored turn was appended after an earlier unscored turn was not. *)
C1_Witness ==
    /\ Submitted
    /\ state.score # None
    /\ Len(state.transcript) = last.tlen + 1
    /\ submits > Len(state.transcript)

(* C2: in turn-count mode the submission that answers the limit-th pool
   question reports is_end = true.                                         *)
C2_EndsAtLimit ==
    ( /\ Submitted
      /\ state.mode = "count"
      /\ last.was_next = "human_feedback"
      /\ ~last.was_end
      /\ last.area \notin {"Introduction", NoneStr}
      /\ last.asked = state.limit )
    => resp.is_end

(* C3: the submission in which prepare_question sets is_end returns
   is_end = true with the report and presents no question.                 *)
C3_DoneIsTerminal ==
    (Submitted /\ state.is_end /\ ~last.was_end)
    => (resp.is_end /\ resp.report_data.details # "None")

(* C4: a submission to a thread that has already ended leaves transcript,
   scores, pools and questions_asked as they were.                         *)
C4_EndedIsIdempotent ==
    (Submitted /\ last.was_next = "END")
    => /\ resp.is_end
       /\ Len(state.transcript) = last.tlen
       /\ Len(state.scores) = last.tlen
       /\ state.difficulty_pools = last.pools
       /\ state.questions_asked = last.asked

(* C5: in time mode a submission made when the remaining time is <= 0
   (elapsed >= limit minutes) returns is_end = true.                       *)
C5_TimeUpEnds ==
    ( /\ Submitted
      /\ state.mode = "time"
      /\ (now - state.start_time) >= state.limit * 60 )
    => resp.is_end

(* C10: in turn-count mode with at least `limit` pool questions and every
   answered turn scored, the report returned when the session ends has
   exactly `limit` transcript entries.                                     *)
C10_ReportHasLimitEntries ==
    ( /\ Submitted
      /\ state.mode = "count"
      /\ last.was_next = "human_feedback"
      /\ resp.is_end
      /\ PoolTotal(state) + state.questions_asked >= state.limit
      /\ Len(state.transcript) = submits )
    => Len(resp.report_data.transcript) = state.limit

(* C8: an answer that is empty, only whitespace, or "skip"/"pass" in any
   case with surrounding whitespace yields score 0, feedback "Skipped.",
   needs_followup = false and no evaluator call, whatever the question.    *)
SkipAnswers ==
    { <<>>,
      <<" ", "\t">>,
      <<"s", "k", "i", "p">>,
      <<" ", "S", "k", "I", "p", "\t">>,
      <<"P", "A", "S", "S", " ">> }

C8_SkipScoresZero ==
    (Submitted /\ state.user_answer \in SkipAnswers) =>
        /\ state.score = 0
        /\ state.feedback = "Skipped."
        /\ ~state.needs_followup
        /\ ~last.evaluator_called

(* A mixed-case, padded "skip" answered a pool question. *)
C8_Witness ==
    /\ Submitted
    /\ state.user_answer = <<" ", "S", "k", "I", "p", "\t">>
    /\ last.area = "Technical"
    /\ state.score = 0
    /\ state.feedback = "Skipped."

(* C9: the re-tuning step of a turn moves the tier up one step when the
   score is >= 75 (capped at hard), down one step when it is < 45 (capped
   at easy) and leaves it alone for 45..74 and for an unscored turn.       *)
StepUp(d) == CASE d = "easy" -> "medium" [] d = "medium" -> "hard"
               [] d = "hard" -> "hard"
StepDown(d) == CASE d = "hard" -> "medium" [] d = "medium" -> "easy"
                 [] d = "easy" -> "easy"

C9_Ratchet ==
    Submitted =>
        last.adjusted =
            IF state.score = None THEN last.difficulty
            ELSE IF state.score >= 75 THEN StepUp(last.difficulty)
            ELSE IF state.score < 45 THEN StepDown(last.difficulty)
            ELSE last.difficulty

(* A score of exactly 75 took the tier from medium to hard. *)
C9_Witness ==
    /\ Submitted
    /\ state.score = 75
    /\ last.difficulty = "medium"
    /\ last.adjusted = "hard"


(* C33: a skipped or empty answer to a question that is not the
   Confirmation prompt is a scored turn: one entry with score 0 is appended
   to transcript and to scores, and the re-tuning step takes the tier one
   step down (it stays at easy).                                           *)
C33_SkipIsScoredTurn ==
    ( /\ Submitted
      /\ last.skip
      /\ last.area # "Confirmation" ) =>
        /\ Len(state.transcript) = last.tlen + 1
        /\ Len(state.scores) = last.tlen + 1
        /\ state.transcript[last.tlen + 1].score = 0
        /\ state.transcript[last.tlen + 1].answer = state.user_answer
        /\ state.scores[last.tlen + 1] = 0
        /\ last.adjusted = StepDown(last.difficulty)

(* An empty answer at tier hard was recorded with score 0 and took the
   tier to medium.                                                         *)
C33_Witness ==
    /\ Submitted
    /\ last.skip
    /\ state.user_answer = <<>>
    /\ last.difficulty = "hard"
    /\ last.adjusted = "medium"
    /\ state.scores[Len(state.scores)] = 0

(* C11: when the evaluator call raises or its output does not parse, the
   turn gets score 0, the feedback "Evaluation Error" and no follow-up, is
   appended to transcript and scores, and the request completes; if the
   session was running with budget and questions left, the next pool
   question is presented.                                                  *)
C11_EvaluationFailureRecovered ==
    (Submitted /\ last.eval_failed) =>
        /\ state.score = 0
        /\ state.feedback = "Evaluation Error"
        /\ ~state.needs_followup
        /\ Len(state.transcript) = last.tlen + 1
        /\ Len(state.scores) = last.tlen + 1
        /\ state.scores[Len(state.scores)] = 0
        /\ state.transcript[Len(state.transcript)].score = 0
        /\ state.transcript[Len(state.transcript)].feedback
              = "Evaluation Error"
        /\ (~last.was_end /\ ~last.over /\ PoolTotal([difficulty_pools |-> last.pools]) > 0)
              => /\ state.questions_asked = last.asked + 1
                 /\ ~resp.is_end
                 /\ resp.message = state.current_question

(* A failed evaluation was recorded and the next pool question asked. *)
C11_Witness ==
    /\ Submitted
    /\ last.eval_failed
    /\ Len(state.transcript) = last.tlen + 1
    /\ state.questions_asked = last.asked + 1
    /\ last.asked >= 1

(* C21: when the evaluator recommends a follow-up for an answer to a
   question that is neither Follow-up nor Confirmation, and the session is
   running with budget left, the next question presented is a Follow-up
   question and no pool question is popped.                                *)
C21_FollowUpAsked ==
    ( /\ Submitted
      /\ last.recommended
      /\ last.was_next = "human_feedback"
      /\ last.area \notin {"Follow-up", "Confirmation"}
      /\ ~last.was_end
      /\ ~last.over ) =>
        /\ state.current_area = "Follow-up"
        /\ resp.message = FollowUpQuestion
        /\ state.questions_asked = last.asked
        /\ state.difficulty_pools = last.pools

(* C23: questions_asked changes only by one, together with the removal of
   one pool question; a step that presents a Follow-up question or the
   Confirmation prompt changes neither the pools nor questions_asked.      *)
C23_OnlyPopsCount ==
    [][ /\ (state'.questions_asked # state.questions_asked) =>
              /\ state'.questions_asked = state.questions_asked + 1
              /\ PoolTotal(state') = PoolTotal(state) - 1
        /\ ( /\ state' # state
             /\ next # "none"
             /\ state'.current_area \in {"Follow-up", "Confirmation"}
             /\ state'.current_question # state.current_question ) =>
              /\ state'.questions_asked = state.questions_asked
              /\ state'.difficulty_pools = state.difficulty_pools ]_vars

(* A pool question was popped and counted; the introduction before it was
   presented without a count.                                              *)
C23_Witness ==
    /\ Submitted
    /\ last.area = "Introduction"
    /\ last.asked = 0
    /\ state.questions_asked = 1
    /\ PoolTotal(state) = PoolTotal([difficulty_pools |-> last.pools]) - 1

(* The tier the claim of C25 names: the current tier when its pool is not
   empty, else the first non-empty of medium, hard, easy.                  *)
ExpectedTier(current, pools) ==
    IF pools[current] # <<>> THEN current
    ELSE IF pools["medium"] # <<>> THEN "medium"
    ELSE IF pools["hard"] # <<>> THEN "hard"
    ELSE "easy"

(* The last submission popped a pool question. *)
Popped == Submitted /\ state.questions_asked # last.asked

(* C25: a MAIN selection takes the question from the current tier's pool
   when that is not empty, else from the first non-empty pool in the order
   medium, hard, easy, which becomes the current tier; exactly one question
   leaves exactly that pool and questions_asked grows by exactly 1.        *)
C25_MainSelection ==
    Popped =>
        LET tier == ExpectedTier(last.adjusted, last.pools) IN
        /\ state.questions_asked = last.asked + 1
        /\ state.current_difficulty = tier
        /\ state.current_diff = tier
        /\ Len(state.difficulty_pools[tier]) = Len(last.pools[tier]) - 1
        /\ \E k \in 1..Len(last.pools[tier]) :
              /\ state.difficulty_pools[tier] = RemoveAt(last.pools[tier], k)
              /\ state.current_question = last.pools[tier][k].text
              /\ state.current_area = last.pools[tier][k].area
        /\ \A d \in Levels \ {tier} :
              state.difficulty_pools[d] = last.pools[d]
        /\ resp.message = state.current_question

(* The re-tuned tier's pool was empty while medium and hard both held a
   question, and the medium question was taken.                            *)
C25_Witness ==
    /\ Popped
    /\ last.pools[last.adjusted] = <<>>
    /\ last.pools["medium"] # <<>>
    /\ last.pools["hard"] # <<>>
    /\ state.current_difficulty = "medium"
    /\ state.difficulty_pools["medium"] = <<>>

(* C27: when MAIN selects with budget left and all three pools empty, the
   State is marked ended and no question is popped or counted.             *)
C27_DepletionEnds ==
    ( /\ Submitted
      /\ last.was_next = "human_feedback"
      /\ ~last.was_end
      /\ ~last.over
      /\ PoolTotal([difficulty_pools |-> last.pools]) = 0 ) =>
        /\ state.is_end
        /\ state.questions_asked = last.asked
        /\ state.difficulty_pools = last.pools

(* The only pool question was answered within the budget and the selection
   found every pool empty.                                                 *)
C27_Witness ==
    /\ Submitted
    /\ ~last.was_end
    /\ ~last.over
    /\ last.asked = 1
    /\ PoolTotal([difficulty_pools |-> last.pools]) = 0
    /\ state.is_end

(* C24: the question start_interview presents is the fixed introduction
   (topic Introduction, difficulty easy), with every generated question
   still in its pool and questions_asked at 0; no later response presents
   the introduction again.                                                 *)
C24_IntroOnce ==
    /\ (last.op = "start") =>
            /\ resp.message = IntroQuestion
            /\ state.current_question = IntroQuestion
            /\ state.current_area = "Introduction"
            /\ state.current_diff = "easy"
            /\ state.questions_asked = 0
            /\ state.difficulty_pools = last.pools
    /\ (Submitted /\ ~resp.is_end) => (resp.message # IntroQuestion)

(* The start half of C24 alone. *)
IntroFirst ==
    (last.op = "start") =>
        /\ resp.message = IntroQuestion
        /\ state.current_area = "Introduction"
        /\ state.current_diff = "easy"
        /\ state.questions_asked = 0
        /\ state.difficulty_pools = last.pools

(* C26: no pool question is presented twice: no two transcript entries
   are about the same pool question.                                       *)
C26_AskedAtMostOnce ==
    \A i, j \in 1..Len(state.transcript) :
        ( /\ i < j
          /\ state.transcript[i].question # IntroQuestion ) =>
            (state.transcript[i].question # state.transcript[j].question)

(* Every pool only shrinks: what a step leaves in a pool was in it before,
   and in no step does a pool grow.                                        *)
PoolsOnlyShrink ==
    [][ (next # "none") =>
          \A d \in Levels :
             /\ Len(state'.difficulty_pools[d])
                   <= Len(state.difficulty_pools[d])
             /\ \A k \in 1..Len(state'.difficulty_pools[d]) :
                   \E m \in 1..Len(state.difficulty_pools[d]) :
                      state'.difficulty_pools[d][k]
                         = state.difficulty_pools[d][m] ]_vars

(* C28: in time mode a submission that runs the selection when the
   elapsed time has reached limit * 60 seconds marks the session ended and
   pops no question.                                                       *)
C28_TimeBudgetInclusive ==
    [][ ( /\ last'.op = "submit"
          /\ submits' = submits + 1
          /\ next = "human_feedback"
          /\ next' = "human_feedback"
          /\ state.mode = "time"
          /\ ~state.is_end
          /\ now - state.start_time >= state.limit * 60 ) =>
            /\ state'.is_end
            /\ state'.questions_asked = state.questions_asked ]_vars

(* C28 with the strict comparison of line 96. *)
TimeBudgetStrict ==
    [][ ( /\ last'.op = "submit"
          /\ submits' = submits + 1
          /\ next = "human_feedback"
          /\ next' = "human_feedback"
          /\ state.mode = "time"
          /\ ~state.is_end
          /\ now - state.start_time > state.limit * 60 ) =>
            /\ state'.is_end
            /\ state'.questions_asked = state.questions_asked ]_vars

(* C29: a step that changes the transcript appends one entry, whose
   difficulty and question are the current_diff and current_question the
   question was presented with, and leaves the earlier entries as they
   were; current_diff is the tier of the pool the question was popped from
   and easy for the introduction.                                          *)
C29_EntryTierAtAsking ==
    [][ /\ (next # "none" /\ state'.transcript # state.transcript) =>
              LET n == Len(state.transcript) IN
              /\ Len(state'.transcript) = n + 1
              /\ SubSeq(state'.transcript, 1, n) = state.transcript
              /\ state'.transcript[n + 1].difficulty = state.current_diff
              /\ state'.transcript[n + 1].question = state.current_question
        /\ (state'.questions_asked # state.questions_asked) =>
              /\ Len(state'.difficulty_pools[state'.current_diff])
                    = Len(state.difficulty_pools[state'.current_diff]) - 1
        /\ (state'.current_area = "Introduction") =>
              (state'.current_diff = "easy") ]_vars

(* An easy question was answered with a score that raised the tier to
   medium; its entry says easy.                                            *)
C29_Witness ==
    /\ Submitted
    /\ Len(state.transcript) = last.tlen + 1
    /\ last.asked >= 1
    /\ last.difficulty = "easy"
    /\ last.adjusted = "medium"
    /\ state.transcript[Len(state.transcript)].difficulty = "easy"

(* C30: after every step scores and transcript have the same length and
   scores[i] is transcript[i].score; within a session a step leaves the
   entries that were there in place.                                       *)
C30_ScoresMirrorTranscript ==
    [][ /\ Len(state'.scores) = Len(state'.transcript)
        /\ \A k \in 1..Len(state'.scores) :
              state'.scores[k] = state'.transcript[k].score
        /\ (next # "none") =>
              /\ Len(state'.scores) >= Len(state.scores)
              /\ SubSeq(state'.scores, 1, Len(state.scores)) = state.scores
              /\ SubSeq(state'.transcript, 1, Len(state.transcript))
                    = state.transcript ]_vars

(* Two turns with different scores are on record. *)
C30_Witness ==
    /\ Len(state.scores) >= 2
    /\ state.scores[1] # state.scores[2]
    /\ state.transcript[2].score = state.scores[2]

(* C31: start_interview leaves questions_asked at 0 with every bucketed
   question in its pool; every later step keeps questions_asked plus the
   number of questions left in the three pools unchanged; and in count
   mode questions_asked never exceeds limit.                               *)
C31_QuestionsConserved ==
    [][ /\ (next = "none" /\ next' # "none") =>
              /\ state'.questions_asked = 0
              /\ state'.difficulty_pools = last'.pools
        /\ (next # "none") =>
              (state'.questions_asked + PoolTotal(state')
                  = state.questions_asked + PoolTotal(state))
        /\ (state'.mode = "count") =>
              (state'.questions_asked <= state'.limit) ]_vars

(* A count-mode session ran into its limit with questions left over. *)
C31_Witness ==
    /\ Submitted
    /\ state.mode = "count"
    /\ state.questions_asked = state.limit
    /\ state.questions_asked >= 1
    /\ PoolTotal(state) >= 1
    /\ state.is_end

(* C32: a started session whose candidate keeps submitting eventually
   reaches END, in either mode and whether or not the clock advances.      *)
C32_Terminates == (next # "none") ~> (next = "END" /\ resp.is_end)

(* A time-mode session ended with the clock standing still at its start:
   every pool question was asked and the pools were found empty.           *)
C32_Witness ==
    /\ next = "END"
    /\ resp.is_end
    /\ state.mode = "time"
    /\ now = state.start_time
    /\ state.questions_asked = 3 * MaxPool
    /\ PoolTotal(state) = 0

(* C12: when the question generator fails at start, the pools hold exactly
   the fixed fallback question and the start request completes with the
   introduction question; when the follow-up generator fails during a
   turn, the submit request still completes with a question.               *)
C12_GenerationFailureRecovered ==
    /\ (last.op = "start" /\ last.gen_failed) =>
            /\ state.difficulty_pools = BuildPools(<<FallbackQuestion>>)
            /\ next = "human_feedback"
            /\ resp.status = 200
            /\ ~resp.is_end
            /\ resp.message = IntroQuestion
    /\ last.followup_failed =>
            /\ resp.status = 200
            /\ next = "human_feedback"
            /\ resp.message = state.current_question

(* The fallback question of a failed generation is the pending question. *)
C12_Witness ==
    /\ Submitted
    /\ next = "human_feedback"
    /\ resp.message = FallbackQuestion.text
    /\ state.current_area = FallbackQuestion.area
    /\ PoolTotal(state) = 0

(* The generator for follow-up questions is never reached: previous_answer
   is never written by a node's returned update.                           *)
FollowUpNeverGenerated ==
    /\ state.previous_answer = NoneAnswer
    /\ state.current_area \notin {"Follow-up", "Confirmation"}
    /\ ~last.followup_failed

(* C13: a submission in which a step of the turn cycle raised leaves the
   stored session exactly as it was before the submission, or fully
   advanced to the next pending question.                                  *)
C13_TurnAllOrNothing ==
    (last.op = "submit_error") =>
        \/ /\ next = last.was_next
           /\ state.user_answer = last.before.user_answer
           /\ state.score = last.before.score
           /\ Len(state.transcript) = last.tlen
        \/ /\ next = "human_feedback"
           /\ Len(state.transcript) = last.tlen + 1
           /\ resp.message = state.current_question

(* C14: a submission under an unknown id is answered not-found and creates
   no session.                                                             *)
C14_UnknownIdNotFound ==
    (last.op = "submit_unknown") =>
        /\ resp.status = 404
        /\ strays = 0

-----------------------------------------------------------------------------
(* Properties of the time-budget backend *)

(* The session a request would find in the store now. *)
Stored == SessionStore_get(backend, store, now)

Messages == Stored.messages

MessagesBy(n) == {i \in 1..Len(Messages) : Messages[i].by = n}

Humans == {i \in 1..Len(Messages) : Messages[i].type = "human"}

Quiescent == \A r \in Reqs : ~InFlight(r)

(* C6: a request that enters get_response while another request of the
   session is still in flight is rejected with an error and leaves no
   message in the session.                                                 *)
C6_SecondRejected ==
    \A r \in Reqs :
        reqs[r].overlapped =>
            /\ reqs[r].status \in {400, 409}
            /\ MessagesBy(reqs[r].n) = {}

(* C7: once no request is in flight, the stored history of an unfinished
   session is a serial one: one human message per accepted request, each
   directly followed by the AI reply to that same request.                 *)
C7_Serialized ==
    ( /\ backend \in {"local", "redis"}
      /\ store.exists /\ Quiescent /\ ~Stored.finished ) =>
        /\ Cardinality(Humans) = served
        /\ \A i \in Humans :
              /\ i < Len(Messages)
              /\ Messages[i + 1].type = "ai"
              /\ Messages[i + 1].by = Messages[i].by

(* Request slot r has entered get_response. *)
Entered(r) == reqs[r].n > 0 /\ reqs[r].pc \in {"awaiting_llm", "done"}

(* The budget of the stored session, in seconds. *)
BudgetSeconds == Stored.duration_minutes * 60

(* C17: a start or submission on one thread leaves the other thread's
   State (pools, transcript, scores, tier, current question, is_end) and
   position as they were.                                                  *)
C17_SessionsIndependent ==
    [][ /\ (peer' # peer) => (state' = state /\ next' = next)
        /\ (state' # state \/ next' # next) => (peer' = peer) ]_vars

(* Both threads have asked a pool question and recorded a turn, and their
   pools and questions differ.                                             *)
C17_Witness ==
    /\ state.questions_asked >= 1
    /\ peer.state.questions_asked >= 1
    /\ Len(state.transcript) >= 1
    /\ Len(peer.state.transcript) >= 1
    /\ state.difficulty_pools # peer.state.difficulty_pools
    /\ state.current_question # peer.state.current_question

(* C18: a request that enters get_response on an unfinished session with
   remaining time below 10% of the budget returns at once, without the LLM,
   with the fixed closing text (the farewell when no time is left) and with
   the session finished.                                                   *)
C18_HardClosingWindow ==
    \A r \in Reqs :
        ( /\ Entered(r)
          /\ ~reqs[r].was_finished
          /\ reqs[r].remaining * 100 < BudgetSeconds * 10 ) =>
            /\ reqs[r].pc = "done"
            /\ ~reqs[r].llm_called
            /\ reqs[r].ai_text =
                  IF reqs[r].remaining = 0 THEN Farewell ELSE Closing
            /\ reqs[r].finished
            /\ reqs[r].status = 200

(* An answer arrived with time left, but less than 10%, and was closed. *)
C18_Witness ==
    \E r \in Reqs :
        /\ Entered(r)
        /\ ~reqs[r].was_finished
        /\ reqs[r].remaining > 0
        /\ reqs[r].remaining * 100 < BudgetSeconds * 10
        /\ reqs[r].ai_text = Closing
        /\ Stored.finished

(* C19: the remaining time of the stored session is the budget minus the
   elapsed time where that is positive and 0 otherwise: never negative,
   and 0 exactly when the elapsed time has reached the budget.             *)
C19_RemainingFloored ==
    store.exists =>
        LET elapsed == now - Stored.start_time
            remaining == get_remaining_time(Stored, now)
        IN /\ remaining >= 0
           /\ (remaining = 0) <=> (elapsed >= BudgetSeconds)
           /\ (elapsed < BudgetSeconds) =>
                  (remaining = BudgetSeconds - elapsed)

(* The clock is past the budget and a request saw no time left. *)
C19_Witness ==
    /\ store.exists
    /\ now - Stored.start_time > BudgetSeconds
    /\ \E r \in Reqs : Entered(r) /\ reqs[r].remaining = 0
                           /\ reqs[r].ai_text = Farewell

(* C20: a request that enters get_response on a finished session gets the
   fixed 'already concluded' text, does not call the LLM, leaves the
   session finished and records no message.                                *)
C20_FinishedRecordsNothing ==
    \A r \in Reqs :
        (Entered(r) /\ reqs[r].was_finished) =>
            /\ reqs[r].ai_text = Concluded
            /\ ~reqs[r].llm_called
            /\ reqs[r].finished
            /\ MessagesBy(reqs[r].n) = {}

(* C15: when the report call of the final submission fails, the response
   is the fixed fallback report with is_end true; the thread is at END with
   is_end set, the transcript and scores are those the turn produced, and
   the response returns them.                                              *)
C15_ReportFailureDegrades ==
    (Submitted /\ resp.is_end /\ resp.report_data.details # "llm-report") =>
        /\ resp.status = 200
        /\ resp.report_data.details = "fallback-report"
        /\ next = "END"
        /\ state.is_end
        /\ Len(state.transcript) = Len(state.scores)
        /\ Len(state.transcript) \in {last.tlen, last.tlen + 1}
        /\ resp.report_data.transcript = state.transcript
        /\ resp.report_data.scores = state.scores

(* A session with recorded turns ended and its report call failed. *)
C15_Witness ==
    /\ Submitted
    /\ resp.is_end
    /\ resp.report_data.details = "fallback-report"
    /\ Len(resp.report_data.transcript) >= 2

(* Backend: a failed report call answers 200 with the fixed error report
   and leaves the stored session as it is.                                 *)
ReportFailureKeepsSession ==
    [][\A r \in Reqs :
        ( /\ reqs[r].pc = "awaiting_report"
          /\ reqs'[r].pc = "done"
          /\ reqs'[r].report = "error-report" ) =>
            /\ reqs'[r].status = 200
            /\ store' = store]_vars

(* A request slot starts a new request in this step. *)
Arrives(r) == reqs[r].pc \in {"idle", "done"} /\ reqs'[r] # reqs[r]

(* The session of main.py was removed by a report. *)
Removed == backend = "memory" /\ served > 0 /\ ~store.exists

(* C34: with the in-memory backend (main.py), the step in which a report
   call succeeds removes the session; once it is removed it stays removed
   and every request that arrives (process_text, process_audio,
   generate_report) is answered 404 at once; the step that returns the
   insufficient-transcript report or the error report leaves the store as
   it is.                                                                  *)
C34_ReportRemovesSession ==
    [][ (backend = "memory") =>
          /\ \A r \in Reqs :
                /\ ( /\ reqs[r].pc = "awaiting_report"
                     /\ reqs'[r].report = "llm-report" ) =>
                        /\ reqs'[r].status = 200
                        /\ ~store'.exists
                /\ ( /\ reqs'[r] # reqs[r]
                     /\ reqs'[r].report
                           \in {"insufficient-report", "error-report"} ) =>
                        /\ reqs'[r].status = 200
                        /\ store' = store
          /\ Removed =>
                /\ ~store'.exists
                /\ \A r \in Reqs :
                      Arrives(r) => ( /\ reqs'[r].pc = "done"
                                      /\ reqs'[r].status = 404 ) ]_vars

(* After a successful report removed the session, a request for it was
   answered 404.                                                           *)
C34_Witness ==
    /\ Removed
    /\ reqs[1].pc = "done"
    /\ reqs[1].report = "llm-report"
    /\ reqs[2].pc = "done"
    /\ reqs[2].status = 404

(* C16: with Redis, the session SessionStore.get builds from the hash that
   SessionStore.save wrote equals the saved session in id, name, role,
   resume text, duration, start time, finished flag, mode and message list.
   The saved sessions are those of the requests that have returned and the
   one in the store.                                                       *)
C16_RoundTrip ==
    (backend = "redis" /\ store.exists) =>
        /\ \A r \in Reqs :
              (reqs[r].pc = "done" /\ reqs[r].status = 200) =>
                 load_session(dump_session(reqs[r].session), "uuid-of-copy",
                              now) = reqs[r].session
        /\ dump_session(Stored) = store.data

(* A finished session with an exchange in its history was saved to Redis
   and read back later.                                                    *)
C16_Witness ==
    /\ backend = "redis"
    /\ store.exists
    /\ now > 0
    /\ Stored.finished
    /\ Len(Stored.messages) >= 4
    /\ \E r \in Reqs : /\ reqs[r].pc = "done"
                        /\ reqs[r].status = 200
                        /\ reqs[r].session = Stored

====
